---- MODULE Spec2Model ----
(***************************************************************************)
(* A model of parsers/cxx/cxx_parser_variable.c: the heuristic that        *)
(* recognises variable declarations in a chain of tokens                   *)
(* (cxxParserExtractVariableDeclarations) and its helper                   *)
(* cxxParserTokenChainLooksLikeConstructorParameterSet.                    *)
(*                                                                         *)
(* Tokens live in an arena (toks); a pointer to a token is its index in    *)
(* the arena and NULL is 0.  The chain is the sequence of the indices      *)
(* still linked, so pNext/pPrev are computed on it and iCount is its       *)
(* length.  A nested chain (the pChain of a parenthesis chain token) is a  *)
(* sequence of token types, delimiters included.                           *)
(***************************************************************************)
EXTENDS Integers, Sequences, FiniteSets, TLC

VARIABLES
    toks,           \* the tokens the tokenizer produced, by arena index
    chain,          \* pChain: the indices still linked, in order
    scope,          \* the scope stack (cxxScopePush / cxxScopePop)
    bCPP,           \* cxxParserCurrentLanguageIsCPP()
    uKeywordState,  \* g_cxx.uKeywordState: the flags seen
    bHeader,        \* isInputHeaderFile()
    pc,             \* position in cxxParserExtractVariableDeclarations
    eScopeKind,     \* local, read once at entry
    t,              \* local cursor
    pTypeEnd,       \* local
    bGotVariable,   \* local
    pIdentifier,    \* local: [tok, sub], sub > 0 for a token nested in tok's chain
    pTokenBefore,   \* local
    pScopeStart,    \* local
    pScopeEnd,      \* local
    iScopesPushed,  \* local
    ret,            \* the value returned ("none" while running)
    leaveText,      \* the CXX_DEBUG_LEAVE_TEXT message of the return taken
    tags,           \* one record per cxxTagBegin call, in order
    decl            \* bookkeeping of the declarator being scanned

vars == <<toks, chain, scope, bCPP, uKeywordState, bHeader, pc, eScopeKind, t,
          pTypeEnd, bGotVariable, pIdentifier, pTokenBefore, pScopeStart,
          pScopeEnd, iScopesPushed, ret, leaveText, tags, decl>>

NULL == 0

(***************************************************************************)
(* Tokens                                                                  *)
(***************************************************************************)
Tok(type) == [eType |-> type, eKeyword |-> "", pChain |-> <<>>]

Kw(keyword) == [eType |-> "Keyword", eKeyword |-> keyword, pChain |-> <<>>]

Paren(content) ==
    [eType |-> "ParenthesisChain", eKeyword |-> "",
     pChain |-> <<"OpeningParenthesis">> \o content \o <<"ClosingParenthesis">>]

NotableTypes ==
    {"SingleColon", "ParenthesisChain", "SquareParenthesisChain", "Assignment",
     "Comma", "Semicolon", "OpeningBracket"}

DisqualifyingTypes ==
    {"Operator", "MultipleAnds", "PointerOperator", "BracketChain",
     "StringConstant", "AngleBracketChain", "CharacterConstant", "MultipleDots",
     "ClosingBracket", "ClosingParenthesis", "ClosingSquareParenthesis",
     "SmallerThanSign"}

TypeEndTypes == {"Identifier", "Keyword", "GreaterThanSign", "Star", "And"}

TrailerTypes ==
    {"ParenthesisChain", "SquareParenthesisChain", "SingleColon", "Assignment"}

TerminatorTypes == {"Comma", "Semicolon", "OpeningBracket"}

TypeRefKeywords == {"STRUCT", "UNION", "CLASS", "ENUM"}

(***************************************************************************)
(* Token chain navigation (cxx_token_chain.c)                              *)
(***************************************************************************)
Pos(c, i) == CHOOSE k \in 1..Len(c) : c[k] = i

pNext(c, i) == LET k == Pos(c, i) IN IF k < Len(c) THEN c[k + 1] ELSE NULL

pPrev(c, i) == LET k == Pos(c, i) IN IF k > 1 THEN c[k - 1] ELSE NULL

cxxTokenChainFirst(c) == IF Len(c) > 0 THEN c[1] ELSE NULL

RECURSIVE AngleWalk(_, _, _, _)
AngleWalk(tk, c, i, iLevel) ==
    IF i = NULL THEN NULL
    ELSE IF tk[i].eType = "SmallerThanSign"
         THEN AngleWalk(tk, c, pNext(c, i), iLevel + 1)
    ELSE IF tk[i].eType = "GreaterThanSign"
         THEN IF iLevel = 1 THEN i ELSE AngleWalk(tk, c, pNext(c, i), iLevel - 1)
    ELSE AngleWalk(tk, c, pNext(c, i), iLevel)

cxxTokenChainSkipToEndOfAngleBracket(tk, c, i) ==
    IF i = NULL \/ tk[i].eType # "SmallerThanSign" THEN NULL
    ELSE AngleWalk(tk, c, pNext(c, i), 1)

RECURSIVE TypeWalk(_, _, _, _)
TypeWalk(tk, c, i, types) ==
    IF i = NULL THEN NULL
    ELSE IF tk[i].eType \in types THEN i
    ELSE TypeWalk(tk, c, pNext(c, i), types)

cxxTokenChainNextTokenOfType(tk, c, i, types) ==
    IF i = NULL THEN NULL ELSE TypeWalk(tk, c, pNext(c, i), types)

cxxTokenChainTake(c, i) == SelectSeq(c, LAMBDA x : x # i)

cxxTokenChainLastPossiblyNestedTokenOfType(nested, type) ==
    LET hits == {k \in 1..Len(nested) : nested[k] = type}
    IN  IF hits = {} THEN NULL ELSE CHOOSE k \in hits : \A j \in hits : j <= k

(***************************************************************************)
(* Scope stack (cxx_scope.c)                                               *)
(***************************************************************************)
cxxScopeGetKind(s) == IF Len(s) = 0 THEN "NAMESPACE" ELSE s[Len(s)].kind

cxxScopeGetVariableKind(s) ==
    LET k == cxxScopeGetKind(s)
    IN  IF k = "NAMESPACE" THEN "VARIABLE"
        ELSE IF k = "FUNCTION" THEN "LOCAL"
        ELSE "MEMBER"

cxxScopePush(s, name, kind) == Append(s, [name |-> name, kind |-> kind])

cxxScopePop(s) == SubSeq(s, 1, Len(s) - 1)

(***************************************************************************)
(* cxxParserTokenChainLooksLikeConstructorParameterSet, lines 27-76        *)
(***************************************************************************)
LooksLikeConstructorParameterSetNoCount(nested) ==
    LET first == nested[2]
    IN  IF first \in {"Number", "StringConstant", "CharacterConstant"} THEN TRUE
        ELSE IF first = "Keyword"
            THEN ~(nested[3] \in {"Keyword", "Star", "And", "MultipleAnds",
                                  "Identifier"})
        ELSE IF first = "Identifier"
            THEN ~(nested[3] \in {"Keyword", "Identifier"})
        ELSE TRUE

cxxParserTokenChainLooksLikeConstructorParameterSet(nested) ==
    IF Len(nested) < 3 THEN FALSE
    ELSE LET first == nested[2]
             second == nested[3]
         IN  IF first \in {"Number", "StringConstant", "CharacterConstant"}
                 THEN TRUE
             ELSE IF first = "Keyword"
                 THEN ~(second \in {"Keyword", "Star", "And", "MultipleAnds",
                                    "Identifier"})
             ELSE IF first = "Identifier"
                 THEN ~(second \in {"Keyword", "Identifier"})
             ELSE TRUE

(***************************************************************************)
(* Return paths                                                            *)
(***************************************************************************)
Leave(value, text) ==
    /\ pc' = "done"
    /\ ret' = value
    /\ leaveText' = text

\* What an abort returns: the flag accumulated so far (lines 167, 182, 191, 201,
\* 236, 242, 254, 267, 273, 282, 292, 376).
AbortValueFalse(got) == FALSE

AbortValue(got) == got

NoDecl ==
    [start |-> NULL, boundary |-> NULL, form |-> "none", begun |-> FALSE,
     skipped |-> {}]

(***************************************************************************)
(* Lines 90-141: the precondition and the locals                           *)
(***************************************************************************)
FirstTokenOk(type) == type \in {"Identifier", "Keyword"}

Enter ==
    /\ pc = "entry"
    /\ IF Len(chain) < 1
       THEN /\ Leave(FALSE, "Chain is empty")
            /\ UNCHANGED <<t, eScopeKind>>
       ELSE /\ t' = cxxTokenChainFirst(chain)
            /\ eScopeKind' = cxxScopeGetKind(scope)
            /\ IF ~FirstTokenOk(toks[t'].eType)
               THEN Leave(FALSE, "Statement does not start with identifier or keyword")
               ELSE /\ pc' = "scan"
                    /\ UNCHANGED <<ret, leaveText>>
    /\ UNCHANGED <<toks, chain, scope, bCPP, uKeywordState, bHeader, pTypeEnd,
                   bGotVariable, pIdentifier, pTokenBefore, pScopeStart,
                   pScopeEnd, iScopesPushed, tags, decl>>

(***************************************************************************)
(* Lines 143-202: the forward scan to the next notable token               *)
(***************************************************************************)
IsNotable(type) == type \in NotableTypes

IsDisqualifyingButOperator(type) == type \in DisqualifyingTypes \ {"Operator"}

IsDisqualifying(type) == type \in DisqualifyingTypes

\* The inner loop, lines 145-186: text # "" when the loop returns; skipped are
\* the tokens strictly inside the angle bracket spans the loop jumped over.
RECURSIVE ScanLoop(_, _, _)
ScanLoop(tk, c, i) ==
    IF i = NULL THEN [t |-> NULL, text |-> "", skipped |-> {}]
    ELSE IF IsNotable(tk[i].eType) THEN [t |-> i, text |-> "", skipped |-> {}]
    ELSE IF tk[i].eType = "SmallerThanSign"
         THEN LET e == cxxTokenChainSkipToEndOfAngleBracket(tk, c, i)
              IN  IF e = NULL
                  THEN [t |-> NULL, text |-> "Failed to skip past angle bracket chain",
                        skipped |-> {}]
                  ELSE LET r == ScanLoop(tk, c, pNext(c, e))
                       IN  [r EXCEPT !.skipped = @ \cup ((i + 1)..(e - 1))]
    ELSE IF IsDisqualifying(tk[i].eType)
         THEN [t |-> NULL, text |-> "Found token that should not appear",
               skipped |-> {}]
    ELSE ScanLoop(tk, c, pNext(c, i))

ForwardScan ==
    /\ pc = "scan"
    /\ IF t = NULL
       THEN /\ Leave(bGotVariable, "Reached end")
            /\ UNCHANGED <<t, decl>>
       ELSE LET r == ScanLoop(toks, chain, t)
            IN  /\ decl' = [start |-> t, boundary |-> r.t, form |-> "none",
                            begun |-> FALSE, skipped |-> r.skipped]
                /\ t' = r.t
                /\ IF r.text # "" THEN Leave(AbortValue(bGotVariable), r.text)
                   ELSE IF r.t = NULL
                       THEN Leave(AbortValue(bGotVariable), "Nothing interesting here")
                   ELSE IF pPrev(chain, r.t) = NULL
                       THEN Leave(AbortValue(bGotVariable), "Nothing interesting before notable token")
                   ELSE /\ pc' = "classify"
                        /\ UNCHANGED <<ret, leaveText>>
    /\ UNCHANGED <<toks, chain, scope, bCPP, uKeywordState, bHeader, eScopeKind,
                   pTypeEnd, bGotVariable, pIdentifier, pTokenBefore,
                   pScopeStart, pScopeEnd, iScopesPushed, tags>>

(***************************************************************************)
(* Lines 204-255: the identifier and the token before it                   *)
(***************************************************************************)
\* Lines 211-214, given the outcome of the external parameter list predicate.
IsFunctionPointer(tk, c, i, bLooksLikeParameterList) ==
    /\ pNext(c, i) # NULL
    /\ tk[pNext(c, i)].eType = "ParenthesisChain"
    /\ bLooksLikeParameterList
    /\ cxxTokenChainLastPossiblyNestedTokenOfType(tk[i].pChain, "Identifier") # NULL

IsInstantiationAnyLanguage(prevType, kind, cpp, nested) ==
    /\ prevType = "Identifier"
    /\ kind \in {"NAMESPACE", "FUNCTION"}
    /\ cxxParserTokenChainLooksLikeConstructorParameterSet(nested)

\* Lines 221-227.
IsInstantiation(prevType, kind, cpp, nested) ==
    /\ prevType = "Identifier"
    /\ kind \in {"NAMESPACE", "FUNCTION"}
    /\ cpp
    /\ cxxParserTokenChainLooksLikeConstructorParameterSet(nested)

Classify ==
    /\ pc = "classify"
    /\ \E bLooksLikeParameterList \in BOOLEAN :
        LET prev == pPrev(chain, t)
            form == IF toks[t].eType = "ParenthesisChain"
                    THEN IF IsFunctionPointer(toks, chain, t, bLooksLikeParameterList)
                             THEN "fptr"
                         ELSE IF IsInstantiation(toks[prev].eType, eScopeKind, bCPP,
                                                 toks[t].pChain)
                             THEN "ctor"
                         ELSE "noparen"
                    ELSE IF toks[prev].eType # "Identifier" THEN "noident"
                    ELSE "plain"
            ident == IF form = "fptr"
                     THEN [tok |-> t,
                           sub |-> cxxTokenChainLastPossiblyNestedTokenOfType(
                                       toks[t].pChain, "Identifier")]
                     ELSE [tok |-> prev, sub |-> 0]
            before == IF form = "fptr" THEN prev ELSE pPrev(chain, prev)
        IN  /\ decl' = [decl EXCEPT !.form = form]
            /\ IF form = "noparen"
               THEN /\ Leave(AbortValue(bGotVariable), "No recognizable parenthesis form for a variable")
                    /\ UNCHANGED <<t, pIdentifier, pTokenBefore>>
               ELSE IF form = "noident"
               THEN /\ Leave(AbortValue(bGotVariable), "No identifier before the notable token")
                    /\ UNCHANGED <<t, pIdentifier, pTokenBefore>>
               ELSE /\ pIdentifier' = ident
                    /\ pTokenBefore' = before
                    /\ t' = IF form = "fptr" THEN pNext(chain, t) ELSE t
                    /\ IF before = NULL
                       THEN Leave(AbortValue(bGotVariable), "Identifier not preceeded by a type")
                       ELSE /\ pc' = "unwind"
                            /\ UNCHANGED <<ret, leaveText>>
    /\ UNCHANGED <<toks, chain, scope, bCPP, uKeywordState, bHeader, eScopeKind,
                   pTypeEnd, bGotVariable, pScopeStart, pScopeEnd,
                   iScopesPushed, tags>>

(***************************************************************************)
(* Lines 257-284: skip back over the qualifiers                            *)
(***************************************************************************)
RECURSIVE UnwindLoopAnyToken(_, _, _, _)
UnwindLoopAnyToken(tk, c, before, start) ==
    IF tk[before].eType # "MultipleColons"
    THEN [before |-> before, start |-> start, text |-> ""]
    ELSE LET id == pPrev(c, before)
         IN  IF id = NULL \/ pPrev(c, id) = NULL
             THEN [before |-> NULL, start |-> start,
                   text |-> "Identifier preceeded by multiple colons but not preceeded by a type"]
             ELSE UnwindLoopAnyToken(tk, c, pPrev(c, id), id)

RECURSIVE UnwindLoop(_, _, _, _)
UnwindLoop(tk, c, before, start) ==
    IF tk[before].eType # "MultipleColons"
    THEN [before |-> before, start |-> start, text |-> ""]
    ELSE LET id == pPrev(c, before)
         IN  IF id = NULL
             THEN [before |-> NULL, start |-> start,
                   text |-> "Identifier preceeded by multiple colons but not preceeded by a type"]
             ELSE IF tk[id].eType # "Identifier"
             THEN [before |-> id, start |-> start,
                   text |-> "Identifier preceeded by multiple colons with probable syntax error"]
             ELSE IF pPrev(c, id) = NULL
             THEN [before |-> NULL, start |-> id,
                   text |-> "Identifier preceeded by multiple colons but not preceeded by a type"]
             ELSE UnwindLoop(tk, c, pPrev(c, id), id)

Unwind ==
    /\ pc = "unwind"
    /\ LET r == UnwindLoop(toks, chain, pTokenBefore, NULL)
       IN  /\ pScopeEnd' = pNext(chain, pTokenBefore)
           /\ pScopeStart' = r.start
           /\ pTokenBefore' = r.before
           /\ IF r.text # "" THEN Leave(AbortValue(bGotVariable), r.text)
              ELSE /\ pc' = "typeend"
                   /\ UNCHANGED <<ret, leaveText>>
    /\ UNCHANGED <<toks, chain, scope, bCPP, uKeywordState, bHeader, eScopeKind,
                   t, pTypeEnd, bGotVariable, pIdentifier, iScopesPushed, tags,
                   decl>>

(***************************************************************************)
(* Lines 286-301: the end of the type, set once                            *)
(***************************************************************************)
IsTypeEnd(type) == type \in TypeEndTypes

NeedsTypeEndAlways(typeEnd) == TRUE

NeedsTypeEnd(typeEnd) == typeEnd = NULL

TypeEnd ==
    /\ pc = "typeend"
    /\ IF NeedsTypeEnd(pTypeEnd)
       THEN IF ~IsTypeEnd(toks[pTokenBefore].eType)
            THEN /\ Leave(AbortValue(bGotVariable), "Token does not seem to be part of type name")
                 /\ UNCHANGED <<pTypeEnd, iScopesPushed>>
            ELSE /\ pTypeEnd' = pTokenBefore
                 /\ iScopesPushed' = 0
                 /\ pc' = "push"
                 /\ UNCHANGED <<ret, leaveText>>
       ELSE /\ iScopesPushed' = 0
            /\ pc' = "push"
            /\ UNCHANGED <<pTypeEnd, ret, leaveText>>
    /\ UNCHANGED <<toks, chain, scope, bCPP, uKeywordState, bHeader, eScopeKind,
                   t, bGotVariable, pIdentifier, pTokenBefore, pScopeStart,
                   pScopeEnd, tags, decl>>

MoreScopes == pScopeStart # NULL /\ pScopeStart # pScopeEnd

(***************************************************************************)
(* Lines 303-321: one iteration of the loop that takes a qualifier off the *)
(* chain and pushes it as a scope                                          *)
(***************************************************************************)
PushScopeNoTake ==
    /\ pc = "push"
    /\ MoreScopes
    /\ LET colons == cxxTokenChainNextTokenOfType(toks, chain, pScopeStart,
                                                  {"MultipleColons"})
       IN  /\ pScopeStart' = pNext(chain, colons)
           /\ scope' = cxxScopePush(scope, pScopeStart, "CLASS")
           /\ iScopesPushed' = iScopesPushed + 1
    /\ UNCHANGED <<toks, chain, bCPP, uKeywordState, bHeader, pc, eScopeKind, t,
                   pTypeEnd, bGotVariable, pIdentifier, pTokenBefore, pScopeEnd,
                   ret, leaveText, tags, decl>>

PushScope ==
    /\ pc = "push"
    /\ MoreScopes
    /\ LET pScopeId == pScopeStart
           colons == cxxTokenChainNextTokenOfType(toks, chain, pScopeStart,
                                                  {"MultipleColons"})
       IN  /\ pScopeStart' = pNext(chain, colons)
           /\ chain' = cxxTokenChainTake(chain, pScopeId)
           /\ scope' = cxxScopePush(scope, pScopeId, "CLASS")
           /\ iScopesPushed' = iScopesPushed + 1
    /\ UNCHANGED <<toks, bCPP, uKeywordState, bHeader, pc, eScopeKind, t,
                   pTypeEnd, bGotVariable, pIdentifier, pTokenBefore, pScopeEnd,
                   ret, leaveText, tags, decl>>

(***************************************************************************)
(* Lines 323-362: the tag                                                  *)
(***************************************************************************)
HasTypeRefAnyCount(tk, c, typeEnd) ==
    /\ typeEnd # NULL
    /\ tk[typeEnd].eType = "Identifier"
    /\ pPrev(c, typeEnd) # NULL
    /\ tk[pPrev(c, typeEnd)].eType = "Keyword"
    /\ tk[pPrev(c, typeEnd)].eKeyword \in TypeRefKeywords

\* Lines 336-348.
HasTypeRef(tk, c, typeEnd) ==
    /\ typeEnd # NULL
    /\ Len(c) = 4
    /\ tk[typeEnd].eType = "Identifier"
    /\ pPrev(c, typeEnd) # NULL
    /\ tk[pPrev(c, typeEnd)].eType = "Keyword"
    /\ tk[pPrev(c, typeEnd)].eKeyword \in TypeRefKeywords

IsFileScopeCurrentKind(kind, keywordState, header, s) ==
    LET k == cxxScopeGetKind(s)
    IN  \/ (k = "NAMESPACE" /\ "SeenStatic" \in keywordState /\ ~header)
        \/ k = "FUNCTION"
        \/ (k # "NAMESPACE" /\ k # "FUNCTION" /\ ~header)

\* Lines 357-359.
IsFileScope(kind, keywordState, header, s) ==
    \/ (kind = "NAMESPACE" /\ "SeenStatic" \in keywordState /\ ~header)
    \/ kind = "FUNCTION"
    \/ (kind # "NAMESPACE" /\ kind # "FUNCTION" /\ ~header)

\* Lines 326-330.
TagKind(keywordState, s) ==
    IF "SeenExtern" \in keywordState THEN "EXTERNVAR"
    ELSE cxxScopeGetVariableKind(s)

Emit ==
    /\ pc = "push"
    /\ ~MoreScopes
    /\ bGotVariable' = TRUE
    /\ \E bTag \in BOOLEAN :
        tags' = Append(tags,
            [name |-> pIdentifier,
             kind |-> TagKind(uKeywordState, scope),
             committed |-> bTag,
             typeRef |-> IF bTag /\ HasTypeRef(toks, chain, pTypeEnd)
                         THEN <<pPrev(chain, pTypeEnd), pTypeEnd>> ELSE <<>>,
             isFileScope |-> bTag /\ IsFileScope(eScopeKind, uKeywordState,
                                                 bHeader, scope),
             typeEnd |-> pTypeEnd,
             scope |-> scope,
             decl |-> decl])
    /\ decl' = [decl EXCEPT !.begun = TRUE]
    /\ pc' = "pop"
    /\ UNCHANGED <<toks, chain, scope, bCPP, uKeywordState, bHeader, eScopeKind,
                   t, pTypeEnd, pIdentifier, pTokenBefore, pScopeStart,
                   pScopeEnd, iScopesPushed, ret, leaveText>>

(***************************************************************************)
(* Lines 364-368: one iteration of the loop that pops the scopes           *)
(***************************************************************************)
MorePopsButOne(n) == n > 1

MorePops(n) == n > 0

PopScope ==
    /\ pc = "pop"
    /\ MorePops(iScopesPushed)
    /\ scope' = cxxScopePop(scope)
    /\ iScopesPushed' = iScopesPushed - 1
    /\ UNCHANGED <<toks, chain, bCPP, uKeywordState, bHeader, pc, eScopeKind, t,
                   pTypeEnd, bGotVariable, pIdentifier, pTokenBefore,
                   pScopeStart, pScopeEnd, ret, leaveText, tags, decl>>

(***************************************************************************)
(* Lines 370-388: run to the terminator; a comma starts the next           *)
(* declarator                                                              *)
(***************************************************************************)
Trailer ==
    /\ pc = "pop"
    /\ ~MorePops(iScopesPushed)
    /\ LET u == IF toks[t].eType \in TrailerTypes
                THEN cxxTokenChainNextTokenOfType(toks, chain, t, TerminatorTypes)
                ELSE t
       IN  IF u = NULL
           THEN /\ Leave(AbortValue(bGotVariable), "Didn't find an assignment, comma, semicolon or {")
                /\ t' = NULL
           ELSE IF toks[u].eType \in {"Semicolon", "OpeningBracket"}
           THEN /\ Leave(bGotVariable, "Noting else")
                /\ t' = u
           ELSE /\ t' = pNext(chain, u)
                /\ pc' = "scan"
                /\ UNCHANGED <<ret, leaveText>>
    /\ UNCHANGED <<toks, chain, scope, bCPP, uKeywordState, bHeader, eScopeKind,
                   pTypeEnd, bGotVariable, pIdentifier, pTokenBefore,
                   pScopeStart, pScopeEnd, iScopesPushed, tags, decl>>

Next ==
    \/ Enter
    \/ ForwardScan
    \/ Classify
    \/ Unwind
    \/ TypeEnd
    \/ PushScope
    \/ Emit
    \/ PopScope
    \/ Trailer

(***************************************************************************)
(* Inputs: the chains handed to the scanner and the parser state around it *)
(***************************************************************************)
MaxLen == 6

MaxLenAbort == 6

MaxLenAngle == 6

MaxLenType == 5

MaxLenParen == 5

MaxLenScope == 6

MaxLenRef == 6

MaxBadLen == 2

Seqs(S, lo, hi) == UNION {[1..n -> S] : n \in lo..hi}

\* Every chain over alpha of up to n tokens that passes the check of its first
\* token (line 133), and the chains of up to MaxBadLen tokens that do not.
Chains(alpha, n) ==
    Seqs(alpha, 0, MaxBadLen) \cup
    {<<h>> \o tl : h \in {x \in alpha : FirstTokenOk(x.eType)},
                   tl \in Seqs(alpha, 0, n - 1)}

InitOver(chains, kinds, langs, keywordStates, headers) ==
    /\ toks \in chains
    /\ chain = [k \in 1..Len(toks) |-> k]
    /\ scope \in {<<[name |-> NULL, kind |-> k]>> : k \in kinds}
    /\ bCPP \in langs
    /\ uKeywordState \in keywordStates
    /\ bHeader \in headers
    /\ pc = "entry"
    /\ eScopeKind = "NAMESPACE"
    /\ t = NULL
    /\ pTypeEnd = NULL
    /\ bGotVariable = FALSE
    /\ pIdentifier = [tok |-> NULL, sub |-> 0]
    /\ pTokenBefore = NULL
    /\ pScopeStart = NULL
    /\ pScopeEnd = NULL
    /\ iScopesPushed = 0
    /\ ret = "none"
    /\ leaveText = ""
    /\ tags = <<>>
    /\ decl = NoDecl

ScopeKinds == {"NAMESPACE", "FUNCTION", "CLASS"}

\* A :: B :: value = 0 ;
ScenarioF ==
    <<Tok("Identifier"), Tok("MultipleColons"), Tok("Identifier"),
      Tok("MultipleColons"), Tok("Identifier"), Tok("Assignment"),
      Tok("Number"), Tok("Semicolon")>>

\* int A :: B :: value = 0 ;
ScenarioFTyped == <<Kw("INT")>> \o ScenarioF

\* Qualified declarators and type references.
AlphaQ ==
    {Kw("STRUCT"), Tok("Identifier"), Tok("MultipleColons"), Tok("Comma"),
     Tok("Semicolon"), Tok("Assignment")}

Init ==
    InitOver(Chains(AlphaQ, MaxLen) \cup {ScenarioF, ScenarioFTyped},
             {"NAMESPACE"}, {TRUE}, {{}}, {FALSE})

Spec == Init /\ [][Next]_vars

\* The ways the scan of a later declarator ends.
AlphaAbort ==
    {Tok("Identifier"), Tok("MultipleColons"), Tok("Comma"), Tok("Semicolon"),
     Tok("Operator"), Tok("SmallerThanSign"), Paren(<<"Identifier">>)}

InitAbort ==
    InitOver(Chains(AlphaAbort, MaxLenAbort), {"NAMESPACE"}, {TRUE}, {{}}, {FALSE})

SpecAbort == InitAbort /\ [][Next]_vars

\* Angle brackets and the tokens that end the forward scan.
AlphaAngle ==
    {Tok("Identifier"), Tok("MultipleColons"), Tok("Comma"), Tok("Semicolon"),
     Tok("Operator"), Tok("SmallerThanSign"), Tok("GreaterThanSign")}

InitAngle ==
    InitOver(Chains(AlphaAngle, MaxLenAngle), {"NAMESPACE"}, {TRUE}, {{}}, {FALSE})

SpecAngle == InitAngle /\ [][Next]_vars

\* The tokens a type may and may not end with.
AlphaType ==
    {Kw("INT"), Tok("Identifier"), Tok("Star"), Tok("GreaterThanSign"),
     Tok("Number"), Tok("MultipleColons"), Tok("Comma"), Tok("Semicolon")}

InitType ==
    InitOver(Chains(AlphaType, MaxLenType), {"NAMESPACE"}, {TRUE}, {{}}, {FALSE})

SpecType == InitType /\ [][Next]_vars

\* Parenthesis chains: (), (x), (int x), (1, 2), in every scope kind and language.
AlphaParen ==
    {Tok("Identifier"), Tok("MultipleColons"), Tok("Comma"), Tok("Semicolon"),
     Paren(<<>>), Paren(<<"Identifier">>), Paren(<<"Keyword", "Identifier">>),
     Paren(<<"Number", "Comma", "Number">>)}

InitParen ==
    InitOver(Chains(AlphaParen, MaxLenParen), ScopeKinds, BOOLEAN, {{}}, {FALSE})

SpecParen == InitParen /\ [][Next]_vars

\* The parser state the visibility of a tag is computed from.
AlphaScope ==
    {Tok("Identifier"), Tok("MultipleColons"), Tok("Comma"), Tok("Semicolon")}

InitScope ==
    InitOver(Chains(AlphaScope, MaxLenScope), ScopeKinds, {TRUE},
             {{}, {"SeenStatic"}, {"SeenExtern"}}, BOOLEAN)

SpecScope == InitScope /\ [][Next]_vars

\* Type references: keywords that name a type and one that does not.
AlphaRef ==
    {Kw("STRUCT"), Kw("INT"), Tok("Identifier"), Tok("MultipleColons"),
     Tok("Comma"), Tok("Semicolon")}

InitRef ==
    InitOver(Chains(AlphaRef, MaxLenRef), {"NAMESPACE"}, {TRUE}, {{}}, {FALSE})

SpecRef == InitRef /\ [][Next]_vars

(***************************************************************************)
(* Properties                                                              *)
(***************************************************************************)
IsType(i, type) == i >= 1 /\ i <= Len(toks) /\ toks[i].eType = type

IsParen(i) == IsType(i, "ParenthesisChain")

Intact == chain = [k \in 1..Len(toks) |-> k]

Committed(s) == SelectSeq(s, LAMBDA x : x.committed)

IsPrefix(a, b) == Len(a) <= Len(b) /\ SubSeq(b, 1, Len(a)) = a

PushedNames(s) == [k \in 1..(Len(s) - 1) |-> s[k + 1].name]

RECURSIVE PushesOf(_)
PushesOf(s) ==
    IF s = <<>> THEN 0 ELSE (Len(Head(s).scope) - 1) + PushesOf(Tail(s))

\* The declarator in decl has been classified and its scan is over.
Settled(forms) == pc \in {"pop", "scan", "done"} /\ decl.form \in forms

\* The token before the declared name of the declarator in decl.
BeforeName == IF decl.form = "fptr" THEN decl.boundary - 1 ELSE decl.boundary - 2

\* No tag was begun before the declarator in decl.
FirstDeclarator == Len(tags) = (IF decl.begun THEN 1 ELSE 0)

\* The n tokens pairs before b are qualifiers: identifier, colons.
QualifiedBy(b, n) ==
    \A j \in 0..(n - 1) :
        IsType(b - 2 * j, "MultipleColons") /\ IsType(b - 2 * j - 1, "Identifier")

\* A token that is no colons precedes the qualifiers, of a kind that may end
\* a type when the type end is still to be set.
HasPreType(b, first) ==
    \E n \in 0..Len(toks) :
        /\ QualifiedBy(b, n)
        /\ b - 2 * n >= 1
        /\ ~IsType(b - 2 * n, "MultipleColons")
        /\ first => toks[b - 2 * n].eType \in TypeEndTypes

\* C1: at every return, and whenever the cursor moves on to scan, the scope
\* stack is the stack at entry; in between it holds the enclosing scope and
\* the iScopesPushed scopes this call pushed.
C1_ScopeBalance ==
    /\ Len(scope) >= 1
    /\ scope[1].name = NULL
    /\ \A k \in 2..Len(scope) : scope[k].name # NULL
    /\ pc \in {"push", "pop"} => Len(scope) = 1 + iScopesPushed
    /\ pc \notin {"push", "pop"} => Len(scope) = 1

C1_Witness ==
    /\ pc = "done"
    /\ leaveText = "Didn't find an assignment, comma, semicolon or {"
    /\ Len(tags) = 1
    /\ Len(tags[1].scope) = 2
    /\ Len(scope) = 1

\* C2: once bGotVariable is true it stays true, the committed tags stay a
\* prefix of the committed tags, and the call returns true.
C2_NoRetraction ==
    [][bGotVariable =>
           /\ bGotVariable'
           /\ IsPrefix(Committed(tags), Committed(tags'))
           /\ (pc' = "done" => ret' = TRUE)]_vars

C2_Witness ==
    /\ pc = "done"
    /\ leaveText = "Identifier preceeded by multiple colons with probable syntax error"
    /\ Len(Committed(tags)) = 1
    /\ ret = TRUE

\* C3 as stated: A :: B :: value = 0 ; is recognised, and a qualified
\* declarator is recognised whenever each :: follows an identifier.
C3_Original ==
    /\ (toks = ScenarioF /\ pc = "done") =>
           /\ ret = TRUE
           /\ Len(tags) = 1
           /\ tags[1].name = [tok |-> 5, sub |-> 0]
           /\ PushedNames(tags[1].scope) = <<1, 3>>
           /\ Len(scope) = 1
    /\ Settled({"plain", "ctor", "fptr"}) =>
           \A n \in 1..Len(toks) :
               (QualifiedBy(BeforeName, n) /\ ~IsType(BeforeName - 2 * n, "MultipleColons"))
                   => decl.begun

\* C3 amended: A :: B :: value = 0 ; is not recognised, for want of a token
\* before A; int A :: B :: value = 0 ; is, with A then B pushed and both
\* popped; a declarator is recognised exactly when its qualifiers each follow
\* an identifier and a token precedes them, of a type kind for the first
\* declarator.
C3_QualifiedNeedsType ==
    /\ (toks = ScenarioF /\ pc = "done") =>
           /\ ret = FALSE
           /\ tags = <<>>
           /\ Intact
           /\ Len(scope) = 1
    /\ (toks = ScenarioFTyped /\ pc = "done") =>
           /\ ret = TRUE
           /\ Len(tags) = 1
           /\ tags[1].name = [tok |-> 6, sub |-> 0]
           /\ PushedNames(tags[1].scope) = <<2, 4>>
           /\ Len(scope) = 1
    /\ Settled({"plain", "ctor", "fptr"}) =>
           (decl.begun <=> HasPreType(BeforeName, FirstDeclarator))

C3_Witness ==
    /\ toks = ScenarioFTyped
    /\ pc = "done"
    /\ ret = TRUE
    /\ Len(chain) = Len(toks) - 2

Content(i) == Len(toks[i].pChain) - 2

\* The classification of the declarator in decl went as far as calling the
\* heuristic on its parenthesis chain (lines 221-227).
HeuristicApplied ==
    /\ decl.form \in {"ctor", "noparen"}
    /\ IsType(decl.boundary - 1, "Identifier")
    /\ scope[1].kind \in {"NAMESPACE", "FUNCTION"}
    /\ bCPP

\* C4 as stated: the heuristic rejects every content of fewer than 3 tokens,
\* and no tag is begun for a name followed by such a parenthesis chain.
C4_Original ==
    /\ (HeuristicApplied /\ Content(decl.boundary) < 3) => decl.form = "noparen"
    /\ \A k \in 1..Len(tags) :
           tags[k].decl.form = "ctor" => Content(tags[k].decl.boundary) >= 3

\* C4 amended: the heuristic rejects a chain of fewer than 3 tokens with its
\* two delimiters counted, that is an empty content, and in no scope kind or
\* language is a tag begun for a name followed by (); a single identifier as
\* content is accepted.
C4_EmptyOnly ==
    /\ (HeuristicApplied /\ Content(decl.boundary) < 1) => decl.form = "noparen"
    /\ (HeuristicApplied /\ toks[decl.boundary].pChain = Paren(<<"Identifier">>).pChain)
           => decl.form = "ctor"
    /\ \A k \in 1..Len(tags) :
           IsParen(tags[k].decl.boundary) => Content(tags[k].decl.boundary) >= 1
    /\ (decl.form \in {"ctor", "noparen"} /\ Content(decl.boundary) < 1) =>
           (decl.form = "noparen" /\ ~decl.begun /\ pc = "done")

C4_Witness ==
    /\ pc = "done"
    /\ Len(tags) = 1
    /\ tags[1].decl.form = "ctor"
    /\ Content(tags[1].decl.boundary) = 1

\* The four conditions of the instantiation form, on the inputs of the call.
FourHold(b) ==
    /\ IsType(b - 1, "Identifier")
    /\ scope[1].kind \in {"NAMESPACE", "FUNCTION"}
    /\ bCPP
    /\ cxxParserTokenChainLooksLikeConstructorParameterSet(toks[b].pChain)

\* C5 as stated: at a parenthesis chain that is no function pointer, a tag
\* is begun if and only if the four conditions hold.
C5_Original ==
    Settled({"ctor", "noparen"}) => (decl.begun <=> FourHold(decl.boundary))

\* C5 amended: at a parenthesis chain that is no function pointer the
\* declarator is taken for an instantiation if and only if the four
\* conditions hold; if one fails the call returns the flag accumulated so
\* far and begins no further tag; if they hold a tag is begun exactly when a
\* token precedes the name and its qualifiers, of a type kind for the first
\* declarator.
C5_FourNecessary ==
    /\ decl.form \in {"ctor", "noparen"} =>
           /\ IsParen(decl.boundary)
           /\ decl.form = "ctor" <=> FourHold(decl.boundary)
    /\ decl.form = "noparen" =>
           /\ pc = "done"
           /\ ~decl.begun
           /\ ret = bGotVariable
           /\ bGotVariable <=> tags # <<>>
    /\ Settled({"ctor"}) =>
           (decl.begun <=> HasPreType(BeforeName, FirstDeclarator))

C5_Witness ==
    /\ pc = "done"
    /\ Len(tags) = 2
    /\ tags[2].decl.form = "ctor"
    /\ toks[tags[2].decl.boundary].pChain = Paren(<<"Number", "Comma", "Number">>).pChain

TypeEndState ==
    /\ pTypeEnd # NULL => toks[pTypeEnd].eType \in TypeEndTypes
    /\ \A k \in 1..Len(tags) : tags[k].typeEnd = pTypeEnd /\ pTypeEnd # NULL
    /\ leaveText = "Token does not seem to be part of type name" => tags = <<>>

\* C6: pTypeEnd is set at most once, while no tag has been begun, to a token
\* that may end a type, and never changes afterwards; the kind check rejects
\* only the first declarator; every tag is begun with pTypeEnd set to that
\* token.
C6_TypeEndOnce ==
    [][/\ TypeEndState'
       /\ pTypeEnd # NULL => pTypeEnd' = pTypeEnd
       /\ (pTypeEnd = NULL /\ pTypeEnd' # NULL) => tags = <<>>]_vars

C6_Witness ==
    /\ pc = "pop"
    /\ Len(tags) = 2
    /\ tags[2].typeEnd = tags[1].typeEnd
    /\ toks[pTokenBefore].eType = "Comma"
    /\ toks[pTypeEnd].eType = "Keyword"

\* C7: a committed tag has a type reference if and only if the chain as
\* handed over has 4 tokens and the type end is an identifier that follows
\* one of the keywords struct, union, class, enum; the reference is then
\* (keyword, type end).
C7_TypeRef ==
    \A k \in 1..Len(tags) :
        LET e == tags[k].typeEnd
            narrow == /\ Len(toks) = 4
                      /\ IsType(e, "Identifier")
                      /\ IsType(e - 1, "Keyword")
                      /\ toks[e - 1].eKeyword \in TypeRefKeywords
        IN  /\ tags[k].typeRef # <<>> <=> (tags[k].committed /\ narrow)
            /\ tags[k].typeRef # <<>> => tags[k].typeRef = <<e - 1, e>>

C7_Witness ==
    /\ pc = "done"
    /\ Len(tags) = 1
    /\ tags[1].typeRef = <<1, 2>>

\* C8: the visibility of every committed tag follows from the kind of the
\* scope enclosing the call, whatever scopes are pushed when the tag is
\* begun; in a header it is file scope exactly in a function.
C8_FileScope ==
    \A k \in 1..Len(tags) :
        LET kind == scope[1].kind
        IN  tags[k].committed =>
                /\ tags[k].isFileScope <=>
                       \/ (kind = "NAMESPACE" /\ "SeenStatic" \in uKeywordState /\ ~bHeader)
                       \/ kind = "FUNCTION"
                       \/ (kind \notin {"NAMESPACE", "FUNCTION"} /\ ~bHeader)
                /\ bHeader => (tags[k].isFileScope <=> kind = "FUNCTION")
                /\ \A j \in 1..Len(tags) :
                       tags[j].committed => tags[j].isFileScope = tags[k].isFileScope

C8_Witness ==
    /\ Len(tags) = 1
    /\ tags[1].committed
    /\ cxxScopeGetKind(tags[1].scope) = "CLASS"
    /\ scope[1].kind = "NAMESPACE"
    /\ ~bHeader
    /\ ~tags[1].isFileScope

ClaimedDisqualifying == DisqualifyingTypes \ {"SmallerThanSign"}

ScanStops == NotableTypes \cup DisqualifyingTypes

\* The first token from i on that is notable, disqualifying or <.
FirstStop(i) ==
    LET stops == {j \in i..Len(toks) : toks[j].eType \in ScanStops}
    IN  IF stops = {} THEN NULL ELSE CHOOSE j \in stops : \A m \in stops : j <= m

ScanAborted ==
    leaveText \in {"Found token that should not appear",
                   "Failed to skip past angle bracket chain",
                   "Nothing interesting here"}

\* C9: between the start of a tag's declarator and its notable token no
\* token is disqualifying, but inside the spans from < to the matching >
\* that the scan jumped over; a disqualifying token, a < without its >, or
\* the end of the chain before a notable token ends the call and no tag is
\* begun for that declarator.
C9_CleanScan ==
    /\ \A k \in 1..Len(tags) :
           LET d == tags[k].decl
           IN  /\ \A i \in d.start..(d.boundary - 1) :
                      i \in d.skipped \/ toks[i].eType \notin ClaimedDisqualifying
               /\ \A i \in d.skipped :
                      /\ \E a \in d.start..(i - 1) : IsType(a, "SmallerThanSign")
                      /\ \E b \in (i + 1)..(d.boundary - 1) : IsType(b, "GreaterThanSign")
    /\ (pc \notin {"entry", "scan"} /\ leaveText # "Reached end" /\ decl.start # NULL) =>
           LET s == FirstStop(decl.start)
           IN  /\ ScanAborted => (pc = "done" /\ ~decl.begun /\ ret = (tags # <<>>))
               /\ s = NULL => leaveText = "Nothing interesting here"
               /\ (s # NULL /\ toks[s].eType \in ClaimedDisqualifying) =>
                      leaveText = "Found token that should not appear"
               /\ (s # NULL /\ IsType(s, "SmallerThanSign")
                   /\ \A j \in s..Len(toks) : ~IsType(j, "GreaterThanSign")) =>
                      leaveText = "Failed to skip past angle bracket chain"

C9_Witness ==
    /\ pc = "done"
    /\ Len(tags) = 1
    /\ tags[1].decl.skipped # {}
    /\ \E i \in tags[1].decl.skipped : toks[i].eType = "Operator"

\* C10: a call that returns false has detached no token, left the scope
\* stack as it was and begun no tag; in every call the tokens detached are
\* as many as the scopes pushed, all for declarators that reach their tag.
C10_NoEffectOnFailure ==
    /\ (pc = "done" /\ ret = FALSE) =>
           /\ Intact
           /\ Len(scope) = 1
           /\ tags = <<>>
    /\ Len(toks) - Len(chain) =
           PushesOf(tags) + (IF pc = "push" THEN iScopesPushed ELSE 0)

C10_Witness ==
    /\ pc = "done"
    /\ ret = FALSE
    /\ leaveText = "Identifier preceeded by multiple colons but not preceeded by a type"
    /\ decl.form = "plain"

====
